---- MODULE Spec2Model ----
(***************************************************************************)
(* Model of the Quiz page of ethio-study-ai (src/unnamed/part_004):        *)
(* generateQuiz fetches the flashcards of a set and, when there are at     *)
(* least four, generateQuestionsFromFlashcards turns them into multiple-   *)
(* choice questions by three comparator shuffles, a filter and a slice.    *)
(*                                                                         *)
(* A flashcard is [question, answer].  Answer texts are numbers (the code  *)
(* only compares them with !== and indexOf); the question text of the card *)
(* stored at position i is i, so a question names the card it was built    *)
(* from.  The result array of .map is followed one callback at a time:     *)
(* `generated` is its length so far and `question` the element the last    *)
(* finished callback returned; `taken` are the positions of the           *)
(* flashcards that shuffled.slice(0, numQuestions) has handed to the       *)
(* callback so far and `cardPos` the position of the one it is working on.    *)
(*                                                                         *)
(* The later sections follow the quiz session, the result screen, the      *)
(* Upload, Admin and Dashboard pages with the row-level policies they run  *)
(* under, and the process-upload function, each under a specification of   *)
(* its own.  A handler that awaits is split at its awaits.                 *)
(***************************************************************************)
EXTENDS Integers, Sequences, FiniteSets, TLC

VARIABLES
    flashcards,    \* rows of table flashcards with set_id = setId
    pc,            \* position inside generateQuiz
    data,          \* what the flashcards query returned to generateQuiz
    taken,         \* positions of flashcards already handed to the .map callback
    cardPos,       \* position of the flashcard the running callback got, 0 when none runs
    generated,     \* length of the array built by .map so far
    question,      \* the QuizQuestion the callback returned, NoQuestion while it runs
    questionsLen,  \* questions.length of the component state
    loading,       \* component state `loading`
    toast,         \* title of the toast shown, "none" when there is none
    route          \* page the user is on

\* The quiz session (the Quiz component between renders).  A question is kept
\* as [options, correctAnswer]: the number of option buttons it renders and
\* the index handleAnswer compares with.
VARIABLES
    questions,        \* component state `questions`
    currentQuestion,  \* component state `currentQuestion` (0-based)
    selectedAnswer,   \* component state `selectedAnswer`, -1 for null
    showResult,       \* component state `showResult`
    score,            \* component state `score`
    answered,         \* component state `answered`
    quizComplete,     \* component state `quizComplete`
    awaitingSet,      \* generateQuiz calls waiting for the flashcard_sets query
    awaitingCards,    \* generateQuiz calls waiting for the flashcards query
    quizzes,          \* rows of table quizzes
    listAnswered,     \* answers given to the displayed list since it was loaded or restarted
    listScore         \* the correct ones among them

\* The other pages and the backend they share.
VARIABLES
    uploadPage,  \* state of the Upload component, and where its calls stand
    adminPage,   \* state of the Admin component, and where its calls stand
    backend      \* tables profiles, user_roles, premium_requests, uploads; storage

\* The session of the browser, the Dashboard, and the process-upload function.
VARIABLES
    session,        \* the signed-in user supabase.auth.getSession() returns
    dashboardPage,  \* state of the Dashboard component, and where its checks stand
    processUpload,  \* the runs of the process-upload function, by upload id
    tables          \* tables uploads (processing_status), flashcard_sets, flashcards

generationVars == <<pc, data, taken, cardPos, generated, question, questionsLen>>

sessionVars == <<questions, currentQuestion, selectedAnswer, showResult, score,
                 answered, quizComplete, awaitingSet, awaitingCards, quizzes,
                 listAnswered, listScore>>

\* what the Quiz, Upload and Admin pages leave alone
elsewhere == <<session, dashboardPage, processUpload, tables>>

\* what the Quiz page leaves alone
otherPages == <<uploadPage, adminPage, backend, elsewhere>>

\* what the step-by-step generation of one quiz leaves alone
outsideGeneration == <<sessionVars, otherPages>>

\* what the Upload and Admin pages leave alone
quizPage == <<flashcards, generationVars, loading, sessionVars>>

vars == <<flashcards, pc, data, taken, cardPos, generated, question, questionsLen,
          loading, toast, route, sessionVars, otherPages>>

----------------------------------------------------------------------------
(* Bounds of the model *)

\* longest flashcard list whose answers take every grouping
MaxCards == 5

\* longest flashcard list at all (beyond MaxCards all cards share one answer)
MaxLong == 11

\* most files one visit of the Upload page writes to storage
MaxObjects == 2

\* most uploads rows process-upload is invoked for
MaxUploads == 2

\* most flashcards the AI response holds
MaxGenerated == 2

\* most handleApprove and handleReject calls of the Admin page in flight
MaxCalls == 2

----------------------------------------------------------------------------
(* Constants of the program *)

\* const FREE_UPLOAD_LIMIT
FREE_UPLOAD_LIMIT == 6

\* 20 * 1024 * 1024 bytes, the 20MB limit of handleFileChange
MAX_FILE_SIZE == 20 * 1024 * 1024

\* generateQuiz refuses fewer flashcards than this
MIN_CARDS == 4

\* a quiz has at most this many questions
MAX_QUESTIONS == 10

\* wrong answers per question
NUM_DISTRACTORS == 3

----------------------------------------------------------------------------
(* Sequences as JavaScript arrays *)

Min(a, b) == IF a < b THEN a ELSE b

\* Array.prototype.indexOf computed on the array before it was shuffled:
\* the element appended last
IndexOfBeforeShuffle(s, x) == Len(s) - 1

\* Array.prototype.indexOf: 0-based index of the first element equal to x,
\* -1 when there is none
IndexOf(s, x) ==
    IF \E i \in DOMAIN s : s[i] = x
    THEN (CHOOSE i \in DOMAIN s : s[i] = x /\ \A j \in 1..(i - 1) : s[j] # x) - 1
    ELSE -1

\* k elements drawn from the array independently, the same position possibly
\* more than once
ShufflePrefixesRepeating(s, k) ==
    LET m == Min(k, Len(s))
    IN  {[i \in 1..m |-> s[p[i]]] : p \in [1..m -> DOMAIN s]}

\* array.sort(() => Math.random() - 0.5).slice(0, k): the comparator is
\* inconsistent, so the order is whatever the engine's sort makes of it; every
\* outcome is a permutation of the array, and its first k elements are elements
\* at distinct positions of the array, in any order
ShufflePrefixes(s, k) ==
    LET m == Min(k, Len(s))
    IN  {[i \in 1..m |-> s[p[i]]] :
            p \in {f \in [1..m -> DOMAIN s] : \A i, j \in 1..m : f[i] = f[j] => i = j}}

\* array.sort(() => Math.random() - 0.5)
ShuffleOutcomes(s) == ShufflePrefixes(s, Len(s))

----------------------------------------------------------------------------
(* generateQuestionsFromFlashcards *)

NoQuestion == [question |-> 0, options |-> <<>>, correctAnswer |-> -1]

\* numQuestions without the cap
numQuestionsNoCap(cards) == Len(cards)

\* const numQuestions = Math.min(10, flashcards.length)
numQuestions(cards) == Min(MAX_QUESTIONS, Len(cards))

\* flashcards.sort(...) without the copy: the k-th element of the shuffle takes
\* its place in the input array itself
InputSortedInPlace(cards, k, i) == [cards EXCEPT ![k] = cards[i], ![i] = cards[k]]

\* [...flashcards].sort(...): the copy is sorted, and filter and map build new
\* arrays, so the input array is what it was when card i became element k
InputAfterSort(cards, k, i) == cards

\* the next element of shuffled.slice(0, numQuestions) drawn with replacement
NextCardsWithReplacement(cards, done) == DOMAIN cards

\* shuffled is a permutation of flashcards: the element the next callback
\* receives is any flashcard not handed out before
NextCards(cards, done) == DOMAIN cards \ done

\* the other cards told apart by their question instead of their answer
OtherAnswersByQuestion(cards, card) ==
    LET others == SelectSeq(cards, LAMBDA f : f.question # card.question)
    IN  [i \in 1..Len(others) |-> others[i].answer]

\* flashcards.filter((f) => f.answer !== card.answer).map((f) => f.answer)
OtherAnswers(cards, card) ==
    LET others == SelectSeq(cards, LAMBDA f : f.answer # card.answer)
    IN  [i \in 1..Len(others) |-> others[i].answer]

\* the other answers cut to two
DistractorsTwo(cards, card) ==
    ShufflePrefixes(OtherAnswers(cards, card), NUM_DISTRACTORS - 1)

\* .sort(() => Math.random() - 0.5).slice(0, 3) of the other answers
Distractors(cards, card) ==
    ShufflePrefixes(OtherAnswers(cards, card), NUM_DISTRACTORS)

\* the options padded up to four entries with a placeholder text (0) that
\* no flashcard has
OptionPoolPadded(otherAnswers, answer) ==
    [i \in 1..(NUM_DISTRACTORS + 1) |->
        IF i <= Len(otherAnswers) THEN otherAnswers[i]
        ELSE IF i = Len(otherAnswers) + 1 THEN answer
        ELSE 0]

\* [...otherAnswers, card.answer]
OptionPool(otherAnswers, answer) == Append(otherAnswers, answer)

\* the QuizQuestions one callback of .map can return for `card`
QuestionsFor(cards, card) ==
    {[question |-> card.question,
      options |-> options,
      correctAnswer |-> IndexOf(options, card.answer)] :
        options \in UNION {ShuffleOutcomes(OptionPool(otherAnswers, card.answer)) :
                             otherAnswers \in Distractors(cards, card)}}

----------------------------------------------------------------------------
(* The flashcard sets the model starts from *)

\* answer lists of length n, equal answers next to each other and numbered
\* in order of appearance (the code treats answers only up to equality, and
\* positions only up to the shuffles)
GroupedAnswers(n) ==
    {s \in [1..n -> 1..n] :
        /\ n > 0 => s[1] = 1
        /\ \A i \in 1..(n - 1) : s[i + 1] \in {s[i], s[i] + 1}}

CardsOf(answers) ==
    [i \in DOMAIN answers |-> [question |-> i, answer |-> answers[i]]]

\* every short list; of the longer ones those whose cards all share one
\* answer, and one of a card more than a quiz has questions, whose cards from
\* the fourth on share one answer
Inputs ==
    {CardsOf(s) : s \in UNION {GroupedAnswers(n) : n \in 0..MaxCards}}
    \cup {CardsOf([i \in 1..n |-> 1]) : n \in (MaxCards + 1)..MaxLong}
    \cup {CardsOf([i \in 1..(MAX_QUESTIONS + 1) |-> Min(i, MIN_CARDS)])}

NoData == [status |-> "pending", rows |-> <<>>]

----------------------------------------------------------------------------
(* generateQuiz *)

\* the accounts: two users and an admin
Users == {"user1", "user2", "admin1"}

NoUser == "none"

NoFile == [type |-> "none", size |-> 0]

\* useState initial values of the Upload component, no call in flight
UploadIdle ==
    [user |-> NoUser, file |-> NoFile, uploading |-> FALSE, progress |-> 0,
     isPremium |-> FALSE, uploadCount |-> 0, loading |-> TRUE,
     checking |-> "idle",
     awaitingStorage |-> 0, awaitingInsert |-> 0, awaitingProcess |-> 0]

\* useState initial values of the Admin component, no call in flight.  A
\* premium request is named by the user who sent it; requests is the loaded
\* list, the awaiting fields count the handleApprove and handleReject calls
\* of each request that wait for an update to return
AdminIdle ==
    [user |-> NoUser, processingId |-> NoUser,
     requests |-> [u \in Users |-> "none"],
     awaitingRequest |-> [u \in Users |-> 0],
     awaitingProfile |-> [u \in Users |-> 0],
     awaitingReject |-> [u \in Users |-> 0]]

\* the backend after sign-up of the accounts (handle_new_user): no premium
\* profile but the admin's, no request, no upload; uploads are the rows of
\* the signed-in user; uid is auth.uid() of the last statement
BackendIdle ==
    [profiles |-> [u \in Users |-> u = "admin1"],
     admins |-> {"admin1"},
     requests |-> [u \in Users |-> "none"],
     uploads |-> 0, objects |-> 0, processCalls |-> 0,
     uid |-> NoUser]

\* useState initial values of the Dashboard component, no check running
DashboardIdle ==
    [user |-> NoUser, isPremium |-> FALSE, isAdmin |-> FALSE, checking |-> "idle"]

\* the Dashboard has mounted, supabase.auth.getSession() is pending
DashboardOpened == [DashboardIdle EXCEPT !.checking = "session"]

\* no run of process-upload: flashcardsData is the length of the parsed array,
\* flashcardSet the id of the inserted set
FunctionIdle ==
    [uploadId \in 1..MaxUploads |->
        [pc |-> "idle", flashcardsData |-> 0, flashcardSet |-> 0]]

\* no upload row, no flashcard set, no flashcard
TablesIdle ==
    [processing_status |-> [uploadId \in 1..MaxUploads |-> "none"],
     flashcard_sets |-> <<>>,
     flashcards |-> {}]

\* user1 is signed in; the Dashboard is not visited, process-upload not invoked
ElsewhereIdle ==
    /\ session = "user1"
    /\ dashboardPage = DashboardIdle
    /\ processUpload = FunctionIdle
    /\ tables = TablesIdle

\* the other pages are not visited
PagesIdle ==
    /\ uploadPage = UploadIdle
    /\ adminPage = AdminIdle
    /\ backend = BackendIdle
    /\ ElsewhereIdle

\* the session part of the state while one generation is followed step by step
SessionIdle ==
    /\ questions = <<>>
    /\ currentQuestion = 0
    /\ selectedAnswer = -1
    /\ showResult = FALSE
    /\ score = 0
    /\ answered = FALSE
    /\ quizComplete = FALSE
    /\ awaitingSet = 0
    /\ awaitingCards = 0
    /\ quizzes = <<>>
    /\ listAnswered = 0
    /\ listScore = 0

Init ==
    /\ flashcards \in Inputs
    /\ pc = "fetchSet"
    /\ data = NoData
    /\ taken = {}
    /\ cardPos = 0
    /\ generated = 0
    /\ question = NoQuestion
    /\ questionsLen = 0
    /\ loading = TRUE
    /\ toast = "none"
    /\ route = "quiz"
    /\ SessionIdle
    /\ PagesIdle

\* catch (error) { toast "Error"; navigate("/dashboard") } finally { setLoading(false) }
Catch ==
    /\ toast' = "Error"
    /\ route' = "dashboard"
    /\ loading' = FALSE
    /\ pc' = "done"

\* the flashcard_sets query returns the title
FetchSetOk ==
    /\ pc = "fetchSet"
    /\ pc' = "fetchCards"
    /\ UNCHANGED <<flashcards, data, taken, cardPos, generated, question, questionsLen,
                   loading, toast, route>>
    /\ UNCHANGED outsideGeneration

\* the flashcard_sets query returns an error: throw setError
FetchSetError ==
    /\ pc = "fetchSet"
    /\ Catch
    /\ UNCHANGED <<flashcards, data, taken, cardPos, generated, question, questionsLen>>
    /\ UNCHANGED outsideGeneration

\* the flashcards query returns an error: throw cardsError
FetchCardsError ==
    /\ pc = "fetchCards"
    /\ data' = [status |-> "error", rows |-> <<>>]
    /\ Catch
    /\ UNCHANGED <<flashcards, taken, cardPos, generated, question, questionsLen>>
    /\ UNCHANGED outsideGeneration

\* !flashcards || flashcards.length < 3
TooFewCardsOffByOne(d) == d.status = "null" \/ Len(d.rows) < MIN_CARDS - 1

\* !flashcards || flashcards.length < 4
TooFewCards(d) == d.status = "null" \/ Len(d.rows) < MIN_CARDS

\* the flashcards query returns without error, with the rows or with null
FetchCards ==
    /\ pc = "fetchCards"
    /\ \E d \in {[status |-> "ok", rows |-> flashcards],
                 [status |-> "null", rows |-> <<>>]} :
        /\ data' = d
        /\ IF TooFewCards(d)
           THEN /\ toast' = "Not Enough Cards"
                /\ route' = "dashboard"
                /\ loading' = FALSE
                /\ pc' = "done"
           ELSE /\ pc' = "map"
                /\ UNCHANGED <<toast, route, loading>>
    /\ UNCHANGED <<flashcards, taken, cardPos, generated, question, questionsLen>>
    /\ UNCHANGED outsideGeneration

\* .map hands the next element of shuffled.slice(0, numQuestions) to its callback
MapNext ==
    /\ pc = "map"
    /\ cardPos = 0
    /\ generated < numQuestions(data.rows)
    /\ \E i \in NextCards(data.rows, taken) :
        /\ taken' = taken \cup {i}
        /\ cardPos' = i
        /\ data' = [data EXCEPT !.rows = InputAfterSort(data.rows, generated + 1, i)]
    /\ question' = NoQuestion
    /\ UNCHANGED <<flashcards, pc, generated, questionsLen, loading, toast, route>>
    /\ UNCHANGED outsideGeneration

\* the callback returns { question, options, correctAnswer } for its card
MapCallback ==
    /\ pc = "map"
    /\ cardPos # 0
    /\ question' \in QuestionsFor(data.rows, data.rows[cardPos])
    /\ generated' = generated + 1
    /\ cardPos' = 0
    /\ UNCHANGED <<flashcards, pc, data, taken, questionsLen, loading, toast, route>>
    /\ UNCHANGED outsideGeneration

\* setQuestions(generatedQuestions); finally { setLoading(false) }
SetQuestions ==
    /\ pc = "map"
    /\ cardPos = 0
    /\ generated = numQuestions(data.rows)
    /\ questionsLen' = generated
    /\ loading' = FALSE
    /\ pc' = "done"
    /\ UNCHANGED <<flashcards, data, taken, cardPos, generated, question, toast, route>>
    /\ UNCHANGED outsideGeneration

Next ==
    \/ FetchSetOk
    \/ FetchSetError
    \/ FetchCardsError
    \/ FetchCards
    \/ MapNext
    \/ MapCallback
    \/ SetQuestions

Spec == Init /\ [][Next]_vars

----------------------------------------------------------------------------
(* The quiz session: generateQuiz, handleAnswer, handleNext, restartQuiz *)

\* most generateQuiz calls in flight at once
MaxInFlight == 1

\* what the session keeps of a generated question
ShapeOf(q) == [options |-> Len(q.options), correctAnswer |-> q.correctAnswer]

\* the question lists generateQuestionsFromFlashcards can return once `done`
\* are handed out and m more questions are due
RECURSIVE QuizzesFrom(_, _, _)
QuizzesFrom(cards, done, m) ==
    IF m = 0 THEN {<<>>}
    ELSE UNION {{<<ShapeOf(q)>> \o rest :
                    q \in QuestionsFor(cards, cards[i]),
                    rest \in QuizzesFrom(cards, done \cup {i}, m - 1)} :
                 i \in NextCards(cards, done)}

\* the flashcard sets of the sessions: four cards sharing one answer (one
\* option a question), and two pairs of cards sharing an answer (three)
SessionInputs ==
    {c \in Inputs :
        /\ Len(c) = MIN_CARDS
        /\ \A i \in DOMAIN c :
            Cardinality({j \in DOMAIN c : c[j].answer = c[i].answer}) \in {2, 4}
        /\ \A i \in DOMAIN c : c[i].answer <= 2}

\* generateQuestionsFromFlashcards(flashcards) for each of them
SessionQuizzes == [c \in SessionInputs |-> QuizzesFrom(c, {}, numQuestions(c))]

\* the generation variables while a session is followed
GenerationIdle ==
    /\ pc = "done"
    /\ data = NoData
    /\ taken = {}
    /\ cardPos = 0
    /\ generated = 0
    /\ question = NoQuestion
    /\ questionsLen = 0

\* useState initial values; useEffect has called generateQuiz
SessionInit ==
    /\ flashcards \in SessionInputs
    /\ loading = TRUE
    /\ toast = "none"
    /\ route = "quiz"
    /\ questions = <<>>
    /\ currentQuestion = 0
    /\ selectedAnswer = -1
    /\ showResult = FALSE
    /\ score = 0
    /\ answered = FALSE
    /\ quizComplete = FALSE
    /\ awaitingSet = 1
    /\ awaitingCards = 0
    /\ quizzes = <<>>
    /\ listAnswered = 0
    /\ listScore = 0
    /\ GenerationIdle
    /\ PagesIdle

\* the Quiz page is mounted
Mounted == route = "quiz"

\* the question card with its option buttons is rendered
QuestionShown == Mounted /\ ~loading /\ ~quizComplete /\ Len(questions) > 0

\* the result card with "Try Again" is rendered
ResultShown == Mounted /\ ~loading /\ quizComplete

\* catch (error) { toast "Error"; navigate("/dashboard") } finally { setLoading(false) }
SessionCatch ==
    /\ toast' = "Error"
    /\ route' = "dashboard"
    /\ loading' = FALSE

\* the flashcard_sets query of a generateQuiz call returns the title
GenerateQuizSetOk ==
    /\ Mounted
    /\ awaitingSet > 0
    /\ awaitingSet' = awaitingSet - 1
    /\ awaitingCards' = awaitingCards + 1
    /\ UNCHANGED <<flashcards, loading, toast, route, questions, currentQuestion,
                   selectedAnswer, showResult, score, answered, quizComplete,
                   quizzes, listAnswered, listScore, generationVars, otherPages>>

\* the flashcard_sets query returns an error
GenerateQuizSetError ==
    /\ Mounted
    /\ awaitingSet > 0
    /\ awaitingSet' = awaitingSet - 1
    /\ SessionCatch
    /\ UNCHANGED <<flashcards, questions, currentQuestion, selectedAnswer, showResult,
                   score, answered, quizComplete, awaitingCards, quizzes,
                   listAnswered, listScore, generationVars, otherPages>>

\* the flashcards query returns an error
GenerateQuizCardsError ==
    /\ Mounted
    /\ awaitingCards > 0
    /\ awaitingCards' = awaitingCards - 1
    /\ SessionCatch
    /\ UNCHANGED <<flashcards, questions, currentQuestion, selectedAnswer, showResult,
                   score, answered, quizComplete, awaitingSet, quizzes,
                   listAnswered, listScore, generationVars, otherPages>>

\* a quiz written to table quizzes when it is generated
QuizzesWithInsert(rows, generatedQuestions) == Append(rows, generatedQuestions)

\* table quizzes after setQuestions(generatedQuestions): the questions go to
\* component state only
QuizzesAfterSetQuestions(rows, generatedQuestions) == rows

\* the flashcards query returns without error: too few cards, or
\* setQuestions(generateQuestionsFromFlashcards(flashcards))
GenerateQuizCards ==
    /\ Mounted
    /\ awaitingCards > 0
    /\ awaitingCards' = awaitingCards - 1
    /\ loading' = FALSE
    /\ \E d \in {[status |-> "ok", rows |-> flashcards],
                 [status |-> "null", rows |-> <<>>]} :
        IF TooFewCards(d)
        THEN /\ toast' = "Not Enough Cards"
             /\ route' = "dashboard"
             /\ UNCHANGED <<questions, quizzes, listAnswered, listScore>>
        ELSE /\ \E generatedQuestions \in SessionQuizzes[d.rows] :
                /\ questions' = generatedQuestions
                /\ quizzes' = QuizzesAfterSetQuestions(quizzes, generatedQuestions)
             /\ listAnswered' = 0
             /\ listScore' = 0
             /\ UNCHANGED <<toast, route>>
    /\ UNCHANGED <<flashcards, currentQuestion, selectedAnswer, showResult, score,
                   answered, quizComplete, awaitingSet, generationVars, otherPages>>

\* handleAnswer without its first line
AnswerAcceptedAlways(isAnswered) == TRUE

\* if (answered) return
AnswerAccepted(isAnswered) == ~isAnswered

\* handleAnswer(index), index one of the rendered option buttons
handleAnswer ==
    /\ QuestionShown
    /\ \E index \in 0..(questions[currentQuestion + 1].options - 1) :
        IF AnswerAccepted(answered)
        THEN /\ selectedAnswer' = index
             /\ answered' = TRUE
             /\ showResult' = TRUE
             /\ listAnswered' = listAnswered + 1
             /\ IF index = questions[currentQuestion + 1].correctAnswer
                THEN score' = score + 1 /\ listScore' = listScore + 1
                ELSE UNCHANGED <<score, listScore>>
        ELSE UNCHANGED <<selectedAnswer, answered, showResult, score,
                         listAnswered, listScore>>
    /\ UNCHANGED <<flashcards, loading, toast, route, questions, currentQuestion,
                   quizComplete, awaitingSet, awaitingCards, quizzes, generationVars, otherPages>>

\* handleNext, the button under an answered question
handleNext ==
    /\ QuestionShown
    /\ showResult
    /\ IF currentQuestion < Len(questions) - 1
       THEN /\ currentQuestion' = currentQuestion + 1
            /\ selectedAnswer' = -1
            /\ showResult' = FALSE
            /\ answered' = FALSE
            /\ UNCHANGED quizComplete
       ELSE /\ quizComplete' = TRUE
            /\ UNCHANGED <<currentQuestion, selectedAnswer, showResult, answered>>
    /\ UNCHANGED <<flashcards, loading, toast, route, questions, score, awaitingSet,
                   awaitingCards, quizzes, listAnswered, listScore, generationVars, otherPages>>

\* restartQuiz that forgets setScore(0)
RestartKeepingScore ==
    [currentQuestion |-> 0, selectedAnswer |-> -1, showResult |-> FALSE,
     score |-> score, answered |-> FALSE, quizComplete |-> FALSE]

\* the six setters of restartQuiz
RestartValues ==
    [currentQuestion |-> 0, selectedAnswer |-> -1, showResult |-> FALSE,
     score |-> 0, answered |-> FALSE, quizComplete |-> FALSE]

\* restartQuiz, the "Try Again" button: reset, then generateQuiz()
restartQuiz ==
    /\ ResultShown
    /\ awaitingSet + awaitingCards < MaxInFlight
    /\ currentQuestion' = RestartValues.currentQuestion
    /\ selectedAnswer' = RestartValues.selectedAnswer
    /\ showResult' = RestartValues.showResult
    /\ score' = RestartValues.score
    /\ answered' = RestartValues.answered
    /\ quizComplete' = RestartValues.quizComplete
    /\ awaitingSet' = awaitingSet + 1
    /\ listAnswered' = 0
    /\ listScore' = 0
    /\ UNCHANGED <<flashcards, loading, toast, route, questions, awaitingCards,
                   quizzes, generationVars, otherPages>>

SessionNext ==
    \/ GenerateQuizSetOk
    \/ GenerateQuizSetError
    \/ GenerateQuizCardsError
    \/ GenerateQuizCards
    \/ handleAnswer
    \/ handleNext
    \/ restartQuiz

SpecSession == SessionInit /\ [][SessionNext]_vars

----------------------------------------------------------------------------
(* The result card of a completed quiz *)

\* Math.floor((score / questions.length) * 100)
PercentageFloor(correct, total) == (100 * correct) \div total

\* Math.round((score / questions.length) * 100): the nearest integer, a half
\* going up
Percentage(correct, total) == (200 * correct + total) \div (2 * total)

\* const percentage, computed when the result card is rendered
percentage == Percentage(score, Len(questions))

\* the result card with its first message on percentage > 90
MessagesAbove90(p) ==
    (IF p > 90 THEN {"Excellent! You've mastered this material!"} ELSE {})
    \cup (IF p >= 70 /\ p < 90 THEN {"Great job! Keep practicing!"} ELSE {})
    \cup (IF p < 70 THEN {"Keep studying! You'll get there!"} ELSE {})

\* the messages the result card renders for a percentage
Messages(p) ==
    (IF p >= 90 THEN {"Excellent! You've mastered this material!"} ELSE {})
    \cup (IF p >= 70 /\ p < 90 THEN {"Great job! Keep practicing!"} ELSE {})
    \cup (IF p < 70 THEN {"Keep studying! You'll get there!"} ELSE {})

\* a quiz of n questions from n flashcards with pairwise different answers:
\* four options each
ResultQuiz(n) == [i \in 1..n |-> [options |-> NUM_DISTRACTORS + 1,
                                  correctAnswer |-> (i - 1) % (NUM_DISTRACTORS + 1)]]

\* the first question of a generated quiz of every length is displayed
ResultInit ==
    /\ \E n \in MIN_CARDS..MAX_QUESTIONS :
        /\ flashcards = CardsOf([i \in 1..n |-> i])
        /\ questions = ResultQuiz(n)
    /\ loading = FALSE
    /\ toast = "none"
    /\ route = "quiz"
    /\ currentQuestion = 0
    /\ selectedAnswer = -1
    /\ showResult = FALSE
    /\ score = 0
    /\ answered = FALSE
    /\ quizComplete = FALSE
    /\ awaitingSet = 0
    /\ awaitingCards = 0
    /\ quizzes = <<>>
    /\ listAnswered = 0
    /\ listScore = 0
    /\ GenerationIdle
    /\ PagesIdle

ResultNext ==
    \/ handleAnswer
    \/ handleNext

SpecResult == ResultInit /\ [][ResultNext]_vars

----------------------------------------------------------------------------
(* The Upload page: checkUserStatusAndUploads, handleFileChange, handleUpload *)

\* the Quiz page is not visited
QuizIdle ==
    /\ flashcards = <<>>
    /\ GenerationIdle
    /\ SessionIdle
    /\ loading = TRUE

\* const validTypes of handleFileChange
validTypes ==
    {"application/pdf",
     "application/vnd.ms-powerpoint",
     "application/vnd.openxmlformats-officedocument.presentationml.presentation",
     "image/png", "image/jpeg", "image/jpg"}

\* the files a user picks: of every valid type and of one other type, small,
\* of exactly the size limit, and one byte larger
SelectableFiles ==
    [type : validTypes \cup {"text/plain"},
     size : {1, MAX_FILE_SIZE, MAX_FILE_SIZE + 1}]

\* the Upload page is opened; supabase.auth.getSession() is pending.  The
\* profile of the visitor is premium or not, their uploads are none, one
\* below the free limit, or at it.
UploadInit ==
    /\ uploadPage = [UploadIdle EXCEPT !.checking = "session"]
    /\ adminPage = AdminIdle
    /\ \E premium \in BOOLEAN, rows \in {0, FREE_UPLOAD_LIMIT - 1, FREE_UPLOAD_LIMIT} :
        backend = [BackendIdle EXCEPT !.profiles["user1"] = premium, !.uploads = rows]
    /\ ElsewhereIdle
    /\ toast = "none"
    /\ route = "upload"
    /\ QuizIdle

\* the Upload component is mounted
UploadMounted == route = "upload"

\* getSession() resolves without a session: navigate("/auth")
NoSession ==
    /\ UploadMounted
    /\ uploadPage.checking = "session"
    /\ uploadPage' = [uploadPage EXCEPT !.checking = "idle"]
    /\ route' = "auth"
    /\ UNCHANGED <<toast, adminPage, backend, quizPage, elsewhere>>

\* getSession() resolves with the session: setUser, and
\* checkUserStatusAndUploads starts with setLoading(true)
SessionFound ==
    /\ UploadMounted
    /\ uploadPage.checking = "session"
    /\ uploadPage' = [uploadPage EXCEPT !.user = session, !.loading = TRUE,
                                        !.checking = "profile"]
    /\ UNCHANGED <<toast, route, adminPage, backend, quizPage, elsewhere>>

\* the onAuthStateChange callback, while no check is running
AuthStateChange ==
    /\ UploadMounted
    /\ uploadPage.checking = "idle"
    /\ uploadPage.user # NoUser
    /\ \E hasSession \in BOOLEAN :
        IF hasSession
        THEN /\ uploadPage' = [uploadPage EXCEPT !.user = session, !.loading = TRUE,
                                                 !.checking = "profile"]
             /\ UNCHANGED route
        ELSE /\ route' = "auth"
             /\ UNCHANGED uploadPage
    /\ UNCHANGED <<toast, adminPage, backend, quizPage, elsewhere>>

\* the profiles query returns the row, or nothing: profile?.is_premium || false
CheckProfile ==
    /\ UploadMounted
    /\ uploadPage.checking = "profile"
    /\ \E is_premium \in {backend.profiles[uploadPage.user], FALSE} :
        uploadPage' = [uploadPage EXCEPT !.isPremium = is_premium,
                                         !.checking = "count"]
    /\ backend' = [backend EXCEPT !.uid = uploadPage.user]
    /\ UNCHANGED <<toast, route, adminPage, quizPage, elsewhere>>

\* the uploads count query returns the count, or nothing: count || 0; finally
\* setLoading(false)
CheckCount ==
    /\ UploadMounted
    /\ uploadPage.checking = "count"
    /\ \E count \in {backend.uploads, 0} :
        uploadPage' = [uploadPage EXCEPT !.uploadCount = count, !.loading = FALSE,
                                         !.checking = "idle"]
    /\ backend' = [backend EXCEPT !.uid = uploadPage.user]
    /\ UNCHANGED <<toast, route, adminPage, quizPage, elsewhere>>

\* !isPremium && uploadCount > FREE_UPLOAD_LIMIT
hasReachedLimitAbove ==
    ~uploadPage.isPremium /\ uploadPage.uploadCount > FREE_UPLOAD_LIMIT

\* const hasReachedLimit
hasReachedLimit ==
    ~uploadPage.isPremium /\ uploadPage.uploadCount >= FREE_UPLOAD_LIMIT

\* the page is rendered: if (!user || loading) return null
UploadRendered ==
    UploadMounted /\ uploadPage.user # NoUser /\ ~uploadPage.loading

\* handleFileChange(e): e.target.files is empty, or holds one selected file
handleFileChange ==
    /\ UploadRendered
    /\ \E selectedFile \in {NoFile} \cup SelectableFiles :
        IF selectedFile = NoFile
        THEN UNCHANGED <<uploadPage, toast>>
        ELSE IF selectedFile.type \notin validTypes
        THEN toast' = "Invalid File Type" /\ UNCHANGED uploadPage
        ELSE IF selectedFile.size > MAX_FILE_SIZE
        THEN toast' = "File Too Large" /\ UNCHANGED uploadPage
        ELSE uploadPage' = [uploadPage EXCEPT !.file = selectedFile] /\ UNCHANGED toast
    /\ UNCHANGED <<route, adminPage, backend, quizPage, elsewhere>>

\* handleUpload up to its first await: the two early returns, then
\* setUploading(true), setProgress(10), setProgress(30), storage upload sent
handleUpload ==
    /\ UploadRendered
    /\ IF uploadPage.file = NoFile \/ uploadPage.user = NoUser
       THEN UNCHANGED <<uploadPage, toast>>
       ELSE IF hasReachedLimit
       THEN toast' = "Upload Limit Reached" /\ UNCHANGED uploadPage
       ELSE /\ backend.objects + uploadPage.awaitingStorage < MaxObjects
            /\ uploadPage' = [uploadPage EXCEPT !.uploading = TRUE, !.progress = 30,
                                                !.awaitingStorage = @ + 1]
            /\ UNCHANGED toast
    /\ UNCHANGED <<route, adminPage, backend, quizPage, elsewhere>>

\* catch: toast "Upload Failed"; finally: setUploading(false), setProgress(0)
UploadFailed(page) ==
    /\ toast' = "Upload Failed"
    /\ uploadPage' = [page EXCEPT !.uploading = FALSE, !.progress = 0]

\* the storage upload succeeds: setProgress(50), setProgress(60), insert sent
StorageOk ==
    /\ UploadMounted
    /\ uploadPage.awaitingStorage > 0
    /\ backend' = [backend EXCEPT !.objects = @ + 1, !.uid = uploadPage.user]
    /\ uploadPage' = [uploadPage EXCEPT !.awaitingStorage = @ - 1, !.progress = 60,
                                        !.awaitingInsert = @ + 1]
    /\ UNCHANGED <<toast, route, adminPage, quizPage, elsewhere>>

\* the storage upload fails: throw uploadError
StorageError ==
    /\ UploadMounted
    /\ uploadPage.awaitingStorage > 0
    /\ UploadFailed([uploadPage EXCEPT !.awaitingStorage = @ - 1])
    /\ UNCHANGED <<route, adminPage, backend, quizPage, elsewhere>>

\* the uploads row is inserted: setProgress(80), process-upload invoked
InsertOk ==
    /\ UploadMounted
    /\ uploadPage.awaitingInsert > 0
    /\ backend' = [backend EXCEPT !.uploads = @ + 1, !.uid = uploadPage.user]
    /\ uploadPage' = [uploadPage EXCEPT !.awaitingInsert = @ - 1, !.progress = 80,
                                        !.awaitingProcess = @ + 1]
    /\ UNCHANGED <<toast, route, adminPage, quizPage, elsewhere>>

\* the insert fails: throw recordError
InsertError ==
    /\ UploadMounted
    /\ uploadPage.awaitingInsert > 0
    /\ UploadFailed([uploadPage EXCEPT !.awaitingInsert = @ - 1])
    /\ UNCHANGED <<route, adminPage, backend, quizPage, elsewhere>>

\* process-upload returns: toast "Success!", navigate to the set or to the
\* dashboard; finally
ProcessOk ==
    /\ UploadMounted
    /\ uploadPage.awaitingProcess > 0
    /\ backend' = [backend EXCEPT !.processCalls = @ + 1]
    /\ toast' = "Success!"
    /\ \/ route' = "study" /\ UNCHANGED dashboardPage
       \/ route' = "dashboard" /\ dashboardPage' = DashboardOpened
    /\ uploadPage' = [uploadPage EXCEPT !.awaitingProcess = @ - 1,
                                        !.uploading = FALSE, !.progress = 0]
    /\ UNCHANGED <<adminPage, quizPage, session, processUpload, tables>>

\* process-upload returns an error: throw processError
ProcessError ==
    /\ UploadMounted
    /\ uploadPage.awaitingProcess > 0
    /\ backend' = [backend EXCEPT !.processCalls = @ + 1]
    /\ UploadFailed([uploadPage EXCEPT !.awaitingProcess = @ - 1])
    /\ UNCHANGED <<route, adminPage, quizPage, elsewhere>>

UploadNext ==
    \/ NoSession
    \/ SessionFound
    \/ AuthStateChange
    \/ CheckProfile
    \/ CheckCount
    \/ handleFileChange
    \/ handleUpload
    \/ StorageOk
    \/ StorageError
    \/ InsertOk
    \/ InsertError
    \/ ProcessOk
    \/ ProcessError

SpecUpload == UploadInit /\ [][UploadNext]_vars

----------------------------------------------------------------------------
(* Premium: the row-level policies, the request form, the Admin page *)

\* public.has_role(_user_id, _role), over table user_roles
has_role(_user_id, _role) ==
    IF _role = "admin" THEN _user_id \in backend.admins
    ELSE _user_id \in Users \ backend.admins

\* the UPDATE policies of public.profiles: "Users can update their own
\* profile" USING (auth.uid() = id), "Admins can update any profile"
ProfilesUpdatePolicy(uid, id) == uid = id \/ has_role(uid, "admin")

\* "Users can create premium requests" WITH CHECK (auth.uid() = user_id)
RequestsInsertPolicy(uid, user_id) == uid = user_id

\* "Admins can update premium requests" USING (has_role(auth.uid(), 'admin'))
RequestsUpdatePolicy(uid) == has_role(uid, "admin")

\* .from("profiles").update({ is_premium }).eq("id", id) sent as uid: the
\* rows the policies let through are updated, no error for the others
ProfilesUpdate(uid, id, is_premium) ==
    [backend EXCEPT !.profiles[id] = IF ProfilesUpdatePolicy(uid, id) THEN is_premium ELSE @,
                    !.uid = uid]

\* .from("premium_requests").update({ status }).eq("id", request.id) sent as uid
RequestsUpdate(uid, user_id, status) ==
    [backend EXCEPT !.requests[user_id] = IF RequestsUpdatePolicy(uid) THEN status ELSE @,
                    !.uid = uid]

\* the Admin page is open for the admin, checkAdminAccess has passed
PremiumInit ==
    /\ adminPage = [AdminIdle EXCEPT !.user = "admin1"]
    /\ uploadPage = UploadIdle
    /\ backend = BackendIdle
    /\ session = "admin1"
    /\ dashboardPage = DashboardIdle
    /\ processUpload = FunctionIdle
    /\ tables = TablesIdle
    /\ toast = "none"
    /\ route = "admin"
    /\ QuizIdle

\* the Admin component is mounted
AdminMounted == route = "admin"

\* handleSubmit of the premium form: a user inserts a request for themselves;
\* the first request of each user is followed
handleSubmit ==
    /\ \E uid \in Users \ backend.admins :
        /\ backend.requests[uid] = "none"
        /\ RequestsInsertPolicy(uid, uid)
        /\ backend' = [backend EXCEPT !.requests[uid] = "pending", !.uid = uid]
    /\ toast' = "Request Submitted!"
    /\ UNCHANGED <<route, adminPage, uploadPage, quizPage, elsewhere>>

\* a signed-in user sends an update of a profile through the client API
UserUpdatesProfile ==
    /\ \E uid \in Users \ backend.admins, id \in Users, is_premium \in BOOLEAN :
        backend' = ProfilesUpdate(uid, id, is_premium)
    /\ UNCHANGED <<toast, route, adminPage, uploadPage, quizPage, elsewhere>>

\* the admin reloads the page: calls in flight are dropped, checkAdminAccess
\* passes and loadData loads the requests
AdminReload ==
    /\ AdminMounted
    /\ adminPage' = [AdminIdle EXCEPT !.user = session, !.requests = backend.requests]
    /\ UNCHANGED <<toast, route, backend, uploadPage, quizPage, elsewhere>>

\* handleApprove and handleReject calls in flight
AdminCalls ==
    LET Sum(f) == f["user1"] + f["user2"] + f["admin1"]
    IN  Sum(adminPage.awaitingRequest) + Sum(adminPage.awaitingProfile)
            + Sum(adminPage.awaitingReject)

\* the Approve and Reject buttons of a request are rendered and enabled:
\* request.status === "pending", disabled={processingId === request.id}
ButtonsEnabled(id) ==
    adminPage.requests[id] = "pending" /\ adminPage.processingId # id

\* loadData after an update: setRequests(requestsData) if the query returned rows
loadData(page, rows) ==
    \E requestsData \in {rows, page.requests} : adminPage' = [page EXCEPT !.requests = requestsData]

\* handleApprove(request) up to its first await: setProcessingId, status update sent
handleApprove ==
    /\ AdminMounted
    /\ AdminCalls < MaxCalls
    /\ \E id \in Users :
        /\ ButtonsEnabled(id)
        /\ adminPage' = [adminPage EXCEPT !.processingId = id, !.awaitingRequest[id] = @ + 1]
    /\ UNCHANGED <<toast, route, backend, uploadPage, quizPage, elsewhere>>

\* catch: toast "Error"; finally: setProcessingId(null)
AdminCatch(page) ==
    /\ toast' = "Error"
    /\ adminPage' = [page EXCEPT !.processingId = NoUser]

\* the status update returns: profile update sent
ApproveRequestOk ==
    /\ AdminMounted
    /\ \E id \in Users :
        /\ adminPage.awaitingRequest[id] > 0
        /\ backend' = RequestsUpdate(adminPage.user, id, "approved")
        /\ adminPage' = [adminPage EXCEPT !.awaitingRequest[id] = @ - 1,
                                          !.awaitingProfile[id] = @ + 1]
    /\ UNCHANGED <<toast, route, uploadPage, quizPage, elsewhere>>

\* the status update fails: throw requestError
ApproveRequestError ==
    /\ AdminMounted
    /\ \E id \in Users :
        /\ adminPage.awaitingRequest[id] > 0
        /\ AdminCatch([adminPage EXCEPT !.awaitingRequest[id] = @ - 1])
    /\ UNCHANGED <<route, backend, uploadPage, quizPage, elsewhere>>

\* the profile update returns: toast "Approved!", loadData; finally
ApproveProfileOk ==
    /\ AdminMounted
    /\ \E id \in Users :
        /\ adminPage.awaitingProfile[id] > 0
        /\ backend' = ProfilesUpdate(adminPage.user, id, TRUE)
        /\ loadData([adminPage EXCEPT !.awaitingProfile[id] = @ - 1,
                                      !.processingId = NoUser],
                    backend'.requests)
    /\ toast' = "Approved!"
    /\ UNCHANGED <<route, uploadPage, quizPage, elsewhere>>

\* the profile update fails: throw profileError
ApproveProfileError ==
    /\ AdminMounted
    /\ \E id \in Users :
        /\ adminPage.awaitingProfile[id] > 0
        /\ AdminCatch([adminPage EXCEPT !.awaitingProfile[id] = @ - 1])
    /\ UNCHANGED <<route, backend, uploadPage, quizPage, elsewhere>>

\* handleReject(request) up to its await: setProcessingId, status update sent
handleReject ==
    /\ AdminMounted
    /\ AdminCalls < MaxCalls
    /\ \E id \in Users :
        /\ ButtonsEnabled(id)
        /\ adminPage' = [adminPage EXCEPT !.processingId = id, !.awaitingReject[id] = @ + 1]
    /\ UNCHANGED <<toast, route, backend, uploadPage, quizPage, elsewhere>>

\* the status update returns: toast "Rejected", loadData; finally
RejectOk ==
    /\ AdminMounted
    /\ \E id \in Users :
        /\ adminPage.awaitingReject[id] > 0
        /\ backend' = RequestsUpdate(adminPage.user, id, "rejected")
        /\ loadData([adminPage EXCEPT !.awaitingReject[id] = @ - 1,
                                      !.processingId = NoUser],
                    backend'.requests)
    /\ toast' = "Rejected"
    /\ UNCHANGED <<route, uploadPage, quizPage, elsewhere>>

\* the status update fails: throw error
RejectError ==
    /\ AdminMounted
    /\ \E id \in Users :
        /\ adminPage.awaitingReject[id] > 0
        /\ AdminCatch([adminPage EXCEPT !.awaitingReject[id] = @ - 1])
    /\ UNCHANGED <<route, backend, uploadPage, quizPage, elsewhere>>

\* togglePremium(profile): the profile update returns and loadData runs, or
\* the update fails
togglePremium ==
    /\ AdminMounted
    /\ \E id \in Users :
        \/ /\ backend' = ProfilesUpdate(adminPage.user, id, ~backend.profiles[id])
           /\ toast' = "Updated"
           /\ loadData(adminPage, backend'.requests)
        \/ /\ toast' = "Error"
           /\ UNCHANGED <<backend, adminPage>>
    /\ UNCHANGED <<route, uploadPage, quizPage, elsewhere>>

PremiumNext ==
    \/ handleSubmit
    \/ UserUpdatesProfile
    \/ AdminReload
    \/ handleApprove
    \/ ApproveRequestOk
    \/ ApproveRequestError
    \/ ApproveProfileOk
    \/ ApproveProfileError
    \/ handleReject
    \/ RejectOk
    \/ RejectError
    \/ togglePremium

SpecPremium == PremiumInit /\ [][PremiumNext]_vars

----------------------------------------------------------------------------
(* Premium status of the signed-in admin: Admin, Dashboard and Upload pages *)

\* the Admin page is open for the admin, who is one upload below the free
\* limit
StatusInit ==
    /\ adminPage = [AdminIdle EXCEPT !.user = "admin1"]
    /\ uploadPage = UploadIdle
    /\ backend = [BackendIdle EXCEPT !.uploads = FREE_UPLOAD_LIMIT - 1]
    /\ session = "admin1"
    /\ dashboardPage = DashboardIdle
    /\ processUpload = FunctionIdle
    /\ tables = TablesIdle
    /\ toast = "none"
    /\ route = "admin"
    /\ QuizIdle

\* the Dashboard component is mounted
DashboardMounted == route = "dashboard"

\* navigate("/dashboard"): the page left unmounts and the Dashboard mounts,
\* getSession() is pending
OpenDashboard ==
    /\ route # "dashboard"
    /\ route' = "dashboard"
    /\ dashboardPage' = DashboardOpened
    /\ uploadPage' = UploadIdle
    /\ adminPage' = AdminIdle
    /\ UNCHANGED <<toast, backend, quizPage, session, processUpload, tables>>

\* navigate("/upload") from the Dashboard: the Dashboard unmounts and the
\* Upload page mounts
OpenUpload ==
    /\ DashboardMounted
    /\ route' = "upload"
    /\ uploadPage' = [UploadIdle EXCEPT !.checking = "session"]
    /\ dashboardPage' = DashboardIdle
    /\ UNCHANGED <<toast, adminPage, backend, quizPage, session, processUpload, tables>>

\* navigate("/admin") from the Dashboard, shown when isAdmin: the Admin page
\* mounts and checkAdminAccess passes
OpenAdmin ==
    /\ DashboardMounted
    /\ dashboardPage.isAdmin
    /\ has_role(session, "admin")
    /\ route' = "admin"
    /\ adminPage' = [AdminIdle EXCEPT !.user = session, !.requests = backend.requests]
    /\ dashboardPage' = DashboardIdle
    /\ UNCHANGED <<toast, uploadPage, backend, quizPage, session, processUpload, tables>>

\* getSession() resolves on the Dashboard: setUser, checkUserStatus starts
DashboardSession ==
    /\ DashboardMounted
    /\ dashboardPage.checking = "session"
    /\ dashboardPage' = [dashboardPage EXCEPT !.user = session, !.checking = "profile"]
    /\ UNCHANGED <<toast, route, uploadPage, adminPage, backend, quizPage, session,
                   processUpload, tables>>

\* checkUserStatus after the roles query: an admin is admin and premium
checkUserStatusRoles(page, roles) ==
    IF roles
    THEN [page EXCEPT !.isAdmin = TRUE, !.isPremium = TRUE, !.checking = "idle"]
    ELSE [page EXCEPT !.checking = "idle"]

\* checkUserStatus, the profiles query returns the row, or nothing:
\* if (profile) setIsPremium(profile.is_premium || false)
DashboardCheckProfile ==
    /\ DashboardMounted
    /\ dashboardPage.checking = "profile"
    /\ \E profile \in BOOLEAN :
        dashboardPage' = [dashboardPage EXCEPT
                            !.isPremium = IF profile THEN backend.profiles[dashboardPage.user]
                                          ELSE @,
                            !.checking = "roles"]
    /\ backend' = [backend EXCEPT !.uid = dashboardPage.user]
    /\ UNCHANGED <<toast, route, uploadPage, adminPage, quizPage, session,
                   processUpload, tables>>

\* checkUserStatus, the user_roles query returns the admin rows of the user, or
\* nothing
DashboardCheckRoles ==
    /\ DashboardMounted
    /\ dashboardPage.checking = "roles"
    /\ \E roles \in {has_role(dashboardPage.user, "admin"), FALSE} :
        dashboardPage' = checkUserStatusRoles(dashboardPage, roles)
    /\ backend' = [backend EXCEPT !.uid = dashboardPage.user]
    /\ UNCHANGED <<toast, route, uploadPage, adminPage, quizPage, session,
                   processUpload, tables>>

StatusNext ==
    \/ togglePremium
    \/ OpenDashboard
    \/ OpenUpload
    \/ OpenAdmin
    \/ DashboardSession
    \/ DashboardCheckProfile
    \/ DashboardCheckRoles
    \/ UploadNext

SpecStatus == StatusInit /\ [][StatusNext]_vars

----------------------------------------------------------------------------
(* The process-upload function, from the insert of the uploads row on.  The  *)
(* page's side of handleUpload is followed in SpecUpload.  The AI response   *)
(* is kept as what its content parses to: kind "none" when the gateway call  *)
(* fails, "text" when no JSON can be parsed from it, "object" for JSON that  *)
(* is not an array, and "array" with its length otherwise.  A flashcard is   *)
(* [set_id, card, order_index], card being its position in the array.        *)

\* what the function and the insert of the row leave alone
outsideFunction ==
    <<toast, route, uploadPage, adminPage, quizPage, session, dashboardPage>>

\* user1 is on the Upload page with a file chosen; no row is inserted yet
ProcessInit ==
    /\ uploadPage = [UploadIdle EXCEPT !.user = "user1", !.loading = FALSE,
                                       !.file = [type |-> "application/pdf", size |-> 1]]
    /\ adminPage = AdminIdle
    /\ backend = BackendIdle
    /\ ElsewhereIdle
    /\ toast = "none"
    /\ route = "upload"
    /\ QuizIdle

\* the contents an AI response can have
AiContents ==
    {[kind |-> k, length |-> 0] : k \in {"none", "text", "object"}}
        \cup {[kind |-> "array", length |-> n] : n \in 0..MaxGenerated}

\* !Array.isArray(flashcardsData) || flashcardsData.length < 0
NoFlashcardsGeneratedBelowZero(content) ==
    content.kind # "array" \/ content.length < 0

\* !Array.isArray(flashcardsData) || flashcardsData.length === 0
NoFlashcardsGenerated(content) ==
    content.kind # "array" \/ content.length = 0

\* flashcardsData.map((card, index) => ({ set_id, ..., order_index: index }))
flashcardsToInsert(set_id, flashcardsData) ==
    {[set_id |-> set_id, card |-> i, order_index |-> i - 1] : i \in 1..flashcardsData}

\* catch: the error response is returned
Thrown(uploadId) ==
    processUpload' = [processUpload EXCEPT ![uploadId].pc = "failed"]

\* handleUpload, "Create upload record" and "Call edge function to process":
\* the row is inserted with processing_status 'processing' and process-upload
\* is invoked with its id; the function reads the request and sends the
\* select of the row
InvokeProcessUpload ==
    /\ UploadRendered
    /\ backend.uploads < MaxUploads
    /\ LET uploadId == backend.uploads + 1
       IN  /\ tables' = [tables EXCEPT !.processing_status[uploadId] = "processing"]
           /\ processUpload' = [processUpload EXCEPT ![uploadId].pc = "select"]
    /\ backend' = [backend EXCEPT !.uploads = @ + 1, !.uid = uploadPage.user]
    /\ UNCHANGED outsideFunction

\* "Get upload record": the row is returned and the AI gateway is called, or
\* the select fails or LOVABLE_API_KEY is not configured
SelectUpload ==
    /\ \E uploadId \in 1..MaxUploads :
        /\ processUpload[uploadId].pc = "select"
        /\ \/ processUpload' = [processUpload EXCEPT ![uploadId].pc = "ai"]
           \/ Thrown(uploadId)
    /\ UNCHANGED <<tables, backend, outsideFunction>>

\* the AI gateway answers: a failed call or a content that does not parse
\* throws, so does "No flashcards generated"; otherwise the flashcard_sets
\* insert is sent
AiResponse ==
    /\ \E uploadId \in 1..MaxUploads, content \in AiContents :
        /\ processUpload[uploadId].pc = "ai"
        /\ IF content.kind \in {"none", "text"} \/ NoFlashcardsGenerated(content)
           THEN Thrown(uploadId)
           ELSE processUpload' = [processUpload EXCEPT ![uploadId].pc = "set",
                                                       ![uploadId].flashcardsData = content.length]
    /\ UNCHANGED <<tables, backend, outsideFunction>>

\* "Create flashcard set": the row is inserted and the flashcards insert is
\* sent, or setError is thrown
InsertSet ==
    /\ \E uploadId \in 1..MaxUploads :
        /\ processUpload[uploadId].pc = "set"
        /\ \/ /\ tables' = [tables EXCEPT !.flashcard_sets =
                                    Append(@, [upload_id |-> uploadId])]
              /\ processUpload' = [processUpload EXCEPT
                                    ![uploadId].pc = "cards",
                                    ![uploadId].flashcardSet = Len(tables.flashcard_sets) + 1]
           \/ Thrown(uploadId) /\ UNCHANGED tables
    /\ UNCHANGED <<backend, outsideFunction>>

\* "Insert flashcards": all rows are inserted and the status update is sent,
\* or cardsError is thrown
InsertCards ==
    /\ \E uploadId \in 1..MaxUploads :
        /\ processUpload[uploadId].pc = "cards"
        /\ \/ /\ tables' = [tables EXCEPT !.flashcards = @ \cup
                                    flashcardsToInsert(processUpload[uploadId].flashcardSet,
                                                       processUpload[uploadId].flashcardsData)]
              /\ processUpload' = [processUpload EXCEPT ![uploadId].pc = "status"]
           \/ Thrown(uploadId) /\ UNCHANGED tables
    /\ UNCHANGED <<backend, outsideFunction>>

\* "Update upload status": the update is made, or fails with an error nobody
\* reads; the success response is returned
UpdateStatus ==
    /\ \E uploadId \in 1..MaxUploads :
        /\ processUpload[uploadId].pc = "status"
        /\ \/ tables' = [tables EXCEPT !.processing_status[uploadId] = "completed"]
           \/ UNCHANGED tables
        /\ processUpload' = [processUpload EXCEPT ![uploadId].pc = "done"]
    /\ UNCHANGED <<backend, outsideFunction>>

ProcessNext ==
    \/ InvokeProcessUpload
    \/ SelectUpload
    \/ AiResponse
    \/ InsertSet
    \/ InsertCards
    \/ UpdateStatus

SpecProcess == ProcessInit /\ [][ProcessNext]_vars

\* every call the function waits for returns or fails, and the function runs
\* on
SpecProcessFair ==
    /\ SpecProcess
    /\ WF_vars(SelectUpload)
    /\ WF_vars(AiResponse)
    /\ WF_vars(InsertSet)
    /\ WF_vars(InsertCards)
    /\ WF_vars(UpdateStatus)

----------------------------------------------------------------------------
(* Vocabulary of the properties *)

\* a callback of .map has returned a question
Produced == question # NoQuestion

\* the flashcard the question was built from
Source == data.rows[question.question]

\* the positions (1-based) of the options other than the one correctAnswer names
DistractorPositions == DOMAIN question.options \ {question.correctAnswer + 1}

\* the flashcards query returned at least four rows
Enough == data.status = "ok" /\ Len(data.rows) >= 4

\* the flashcards query returned null or fewer than four rows
TooFew == data.status = "null" \/ (data.status = "ok" /\ Len(data.rows) < 4)

\* how many flashcards other than card i have an answer different from its answer
Differing(cards, i) ==
    Cardinality({j \in DOMAIN cards : cards[j].answer # cards[i].answer})

\* every card has at least three other cards with a different answer
Rich(cards) == Len(cards) >= 4 /\ \A i \in DOMAIN cards : Differing(cards, i) >= 3

\* all flashcards have pairwise different answers
UniqueAnswers(cards) ==
    \A i, j \in DOMAIN cards : cards[i].answer = cards[j].answer => i = j

\* some other flashcard has the same answer text as the source flashcard
SourceAnswerShared ==
    \E j \in DOMAIN data.rows : j # question.question /\ data.rows[j].answer = Source.answer

----------------------------------------------------------------------------
(* Properties *)

\* C1: in every generated question, options[correctAnswer] is the answer of
\* the flashcard the question was built from
C1_CorrectOptionIsSourceAnswer ==
    Produced =>
        /\ question.correctAnswer \in 0..(Len(question.options) - 1)
        /\ question.options[question.correctAnswer + 1] = Source.answer

\* a four-option question whose correct answer the last shuffle moved to the front
C1_Witness ==
    Produced /\ Len(question.options) = 4 /\ question.correctAnswer = 0

\* C2: in every generated question exactly one entry of options equals the
\* source flashcard's answer, and correctAnswer is the index of that entry,
\* also when several flashcards share the answer text
C2_ExactlyOneCorrectOption ==
    Produced =>
        LET hits == {i \in DOMAIN question.options : question.options[i] = Source.answer}
        IN  Cardinality(hits) = 1 /\ hits = {question.correctAnswer + 1}

\* a question with wrong options, built from a card whose answer another card shares
C2_Witness ==
    Produced /\ SourceAnswerShared /\ Len(question.options) >= 3

\* C3: with at least 4 flashcards of which every one has at least 3 others
\* with a different answer, 1 to 10 questions are generated, each with
\* exactly 4 options and correctAnswer in 0..3
C3_RichInputGivesFourOptions ==
    (data.status = "ok" /\ Rich(data.rows)) =>
        /\ Produced => Len(question.options) = 4 /\ question.correctAnswer \in 0..3
        /\ pc = "done" => questionsLen \in 1..10 /\ questionsLen = generated

\* a quiz of ten four-option questions generated from more than ten such cards
C3_Witness ==
    /\ data.status = "ok" /\ Rich(data.rows) /\ Len(data.rows) > 10
    /\ pc = "done" /\ questionsLen = 10 /\ Len(question.options) = 4

\* C4: for n >= 4 flashcards the number of generated questions is min(10, n)
C4_QuestionCount ==
    (pc = "done" /\ Enough) =>
        questionsLen = (IF Len(data.rows) < 10 THEN Len(data.rows) ELSE 10)

\* more than ten flashcards gave ten questions
C4_Witness ==
    pc = "done" /\ Enough /\ Len(data.rows) > 10 /\ questionsLen = 10

\* C5: with fewer than 4 flashcards, or no list, generateQuiz stops: no
\* question is generated or stored, 'Not Enough Cards' is shown and the user
\* is sent to the dashboard
C5_TooFewCardsRejected ==
    TooFew =>
        /\ pc = "done"
        /\ taken = {} /\ generated = 0 /\ question = NoQuestion /\ questionsLen = 0
        /\ toast = "Not Enough Cards"
        /\ route = "dashboard"

\* exactly three flashcards were fetched
C5_Witness ==
    data.status = "ok" /\ Len(data.rows) = 3 /\ pc = "done" /\ toast = "Not Enough Cards"

\* C6: every option other than the correct one is the answer of another
\* flashcard of the set and differs from the source flashcard's answer
C6_DistractorsFromOtherCards ==
    Produced =>
        \A i \in DistractorPositions :
            /\ question.options[i] # Source.answer
            /\ \E j \in DOMAIN data.rows :
                j # question.question /\ data.rows[j].answer = question.options[i]

\* a four-option question built from a card whose answer another card shares
C6_Witness ==
    Produced /\ SourceAnswerShared /\ Cardinality(DistractorPositions) = 3

\* C7: the distractors are pairwise distinct whenever the other flashcards
\* offer at least 3 distinct answers different from the correct one
C7_DistractorsPairwiseDistinct ==
    (/\ Produced
     /\ Cardinality({data.rows[j].answer : j \in DOMAIN data.rows} \ {Source.answer}) >= 3) =>
        \A i, j \in DistractorPositions :
            question.options[i] = question.options[j] => i = j

\* C8: when all flashcards have pairwise different answers, no two options
\* of a question are equal
C8_UniqueAnswersGiveDistinctOptions ==
    (Produced /\ UniqueAnswers(data.rows)) =>
        \A i, j \in DOMAIN question.options :
            question.options[i] = question.options[j] => i = j

\* a four-option question from five cards with five different answers
C8_Witness ==
    /\ Produced /\ UniqueAnswers(data.rows)
    /\ Len(data.rows) >= 5 /\ Len(question.options) = 4

\* C9: the cards handed to the callback are flashcards of the input, no
\* position twice: as many positions are taken as callbacks were started,
\* at most numQuestions, and the question comes from a taken position
C9_PoolIsPermutationPrefix ==
    /\ taken \subseteq DOMAIN data.rows
    /\ Cardinality(taken) = generated + (IF cardPos = 0 THEN 0 ELSE 1)
    /\ Cardinality(taken) <= 10
    /\ cardPos # 0 => cardPos \in taken
    /\ Produced => question.question \in taken

\* ten questions from ten different cards out of more than ten
C9_Witness ==
    /\ pc = "done" /\ Len(data.rows) > 10
    /\ generated = 10 /\ Cardinality(taken) = 10 /\ question.question \in taken

\* C10: with at least 4 flashcards, a card with only k < 3 other cards of a
\* different answer gets a question with k + 1 options; no error is raised
\* and the question is part of the quiz that is shown
C10_ShortQuestionsPassSilently ==
    Enough =>
        /\ (Produced /\ Differing(data.rows, question.question) < 3) =>
                Len(question.options) = Differing(data.rows, question.question) + 1
        /\ toast = "none" /\ route = "quiz"
        /\ pc = "done" => questionsLen = generated /\ ~loading

\* a shown quiz whose last question has two or three options only
C10_Witness ==
    /\ Enough /\ pc = "done" /\ questionsLen = generated /\ Produced
    /\ Differing(data.rows, question.question) \in 1..2
    /\ Len(question.options) < 4

----------------------------------------------------------------------------
(* Properties of the quiz session *)

\* a question list is displayed and no generateQuiz call is in flight
InSession ==
    /\ Mounted /\ ~loading
    /\ Len(questions) > 0
    /\ awaitingSet + awaitingCards = 0

\* the structure the session relies on: as many questions as numQuestions,
\* one to four options each, correctAnswer the index of one of them
WellFormedQuiz(qs, cards) ==
    /\ Len(qs) = numQuestions(cards)
    /\ \A i \in DOMAIN qs :
        /\ qs[i].options \in 1..(NUM_DISTRACTORS + 1)
        /\ qs[i].correctAnswer \in 0..(qs[i].options - 1)

\* C11: within a session (a question list loaded, no restart in progress)
\* score equals the number of questions of the list answered correctly so far
\* and never exceeds the number of its questions answered
C11_ScoreCountsCorrectAnswers ==
    InSession => score = listScore /\ score <= listAnswered

\* C12: restartQuiz resets currentQuestion to 0, selectedAnswer to none,
\* showResult and answered to false, score to 0 and quizComplete to false;
\* when a generation completes on the Quiz page, questions holds a quiz of the
\* same structure as the first one
C12_RestartResetsAndRegenerates ==
    [][/\ awaitingSet' > awaitingSet =>
            /\ currentQuestion' = 0 /\ selectedAnswer' = -1
            /\ ~showResult' /\ ~answered'
            /\ score' = 0 /\ ~quizComplete'
       /\ (awaitingCards' < awaitingCards /\ route' = "quiz") =>
            WellFormedQuiz(questions', flashcards')]_vars

\* "Try Again" was just pressed on a completed quiz: the old list is still
\* there, the fields are reset, the regeneration is in flight
C12_Witness ==
    /\ Mounted /\ ~loading /\ awaitingSet = 1
    /\ Len(questions) = MIN_CARDS /\ listAnswered = 0
    /\ currentQuestion = 0 /\ selectedAnswer = -1 /\ score = 0
    /\ ~showResult /\ ~answered /\ ~quizComplete

\* the three end-of-quiz messages
Excellent == "Excellent! You've mastered this material!"
GreatJob == "Great job! Keep practicing!"
KeepStudying == "Keep studying! You'll get there!"

\* C13: the percentage of the result card is score / questions.length * 100
\* rounded to the nearest integer, a half going up: an integer in 0..100, 100
\* exactly when every question was answered correctly, 0 exactly when none
\* was, and 70 for 7 correct out of 10
C13_PercentageIsRoundedRatio ==
    ResultShown =>
        LET total == Len(questions)
            p == percentage
        IN  /\ p \in 0..100
            /\ 2 * total * p <= 200 * score + total
            /\ 200 * score + total < 2 * total * (p + 1)
            /\ p = 100 <=> score = total
            /\ p = 0 <=> score = 0
            /\ (score = 7 /\ total = 10) => p = 70

\* the result card of 7 correct out of 10
C13_Witness ==
    ResultShown /\ score = 7 /\ Len(questions) = 10 /\ percentage = 70

\* C14: for every percentage in 0..100, and the one on the result card,
\* exactly one message is rendered: Excellent iff percentage >= 90, Great job
\* iff 70 <= percentage <= 89, Keep studying iff percentage < 70
C14_ExactlyOneMessage ==
    ResultShown =>
        \A p \in 0..100 \cup {percentage} :
            /\ Cardinality(Messages(p)) = 1
            /\ Excellent \in Messages(p) <=> p >= 90
            /\ GreatJob \in Messages(p) <=> (70 <= p /\ p <= 89)
            /\ KeepStudying \in Messages(p) <=> p < 70

\* the result card of 9 correct out of 10, on the lower edge of Excellent
C14_Witness ==
    /\ ResultShown /\ score = 9 /\ percentage = 90
    /\ Messages(percentage) = {Excellent}

C16_SessionWritesNothing ==
    [][flashcards' = flashcards /\ quizzes' = quizzes]_vars

\* a quiz completed with every question answered, nothing persisted
C16_Witness ==
    /\ ResultShown /\ awaitingSet + awaitingCards = 0
    /\ listAnswered = Len(questions) /\ Len(questions) = MIN_CARDS
    /\ quizzes = <<>>

\* C20: a regenerated list none of whose questions has been answered starts
\* with score 0, no selected answer and answered false
C20_FreshListStartsClean ==
    (InSession /\ listAnswered = 0) =>
        score = 0 /\ selectedAnswer = -1 /\ ~answered /\ ~showResult

----------------------------------------------------------------------------
(* Properties of the Upload page *)

\* handleUpload went past its early returns: setUploading(true) and one more
\* storage upload sent
UploadStarted ==
    /\ uploadPage'.uploading
    /\ uploadPage'.awaitingStorage = uploadPage.awaitingStorage + 1

\* handleUpload calls that went past their early returns and have not ended
UploadsInFlight ==
    uploadPage.awaitingStorage + uploadPage.awaitingInsert + uploadPage.awaitingProcess

\* a storage upload, an uploads row or a process-upload call is made
BackendWritten ==
    \/ backend'.objects # backend.objects
    \/ backend'.uploads # backend.uploads
    \/ backend'.processCalls # backend.processCalls

\* C17: handleUpload starts an upload iff a file and a user are present and
\* (isPremium or uploadCount < 6); for a non-premium user with uploadCount >= 6
\* it writes nothing to storage, table uploads or process-upload, and the only
\* toast it shows is "Upload Limit Reached"; the backend is written only by
\* uploads that were started
C17_UploadStartsIffAllowed ==
    [][/\ handleUpload =>
            /\ UploadStarted <=>
                    /\ uploadPage.file # NoFile
                    /\ uploadPage.user # NoUser
                    /\ uploadPage.isPremium \/ uploadPage.uploadCount < 6
            /\ (~uploadPage.isPremium /\ uploadPage.uploadCount >= 6) =>
                    /\ ~BackendWritten
                    /\ uploadPage' = uploadPage
                    /\ toast' \in {toast, "Upload Limit Reached"}
                    /\ (uploadPage.file # NoFile /\ uploadPage.user # NoUser) =>
                            toast' = "Upload Limit Reached"
       /\ BackendWritten => UploadsInFlight > 0]_vars

\* a non-premium user with six uploads and a file selected was told "Upload
\* Limit Reached", and nothing is uploading or uploaded
C17_Witness ==
    /\ route = "upload"
    /\ ~uploadPage.isPremium /\ uploadPage.uploadCount >= 6
    /\ uploadPage.file # NoFile /\ uploadPage.user # NoUser
    /\ toast = "Upload Limit Reached"
    /\ ~uploadPage.uploading /\ backend.objects = 0

\* C19: the file to upload is a PDF or a PNG/JPEG image of at most 20MB
C19_FileIsPdfOrImage ==
    uploadPage.file # NoFile =>
        /\ uploadPage.file.type \in {"application/pdf", "image/png", "image/jpeg", "image/jpg"}
        /\ uploadPage.file.size <= 20 * 1024 * 1024

\* C21: a user whose profile is not premium never has more than
\* FREE_UPLOAD_LIMIT rows in table uploads
C21_FreeUserAtMostSixUploads ==
    ~backend.profiles[session] => backend.uploads <= FREE_UPLOAD_LIMIT

----------------------------------------------------------------------------
(* Properties of premium *)

\* C22: a user with the admin role is premium on the Dashboard, and the Upload
\* page never applies the free upload limit to them, once the pages have
\* loaded the status
C22_AdminAlwaysPremium ==
    /\ (/\ DashboardMounted
        /\ dashboardPage.checking = "idle"
        /\ has_role(dashboardPage.user, "admin")) => dashboardPage.isPremium
    /\ (/\ UploadRendered
        /\ uploadPage.checking = "idle"
        /\ has_role(uploadPage.user, "admin")) => ~hasReachedLimit

\* C18: the is_premium flag of a non-admin user's profile goes from false to
\* true only by a statement an admin sent
C18_PremiumOnlyByAdmin ==
    [][\A u \in Users \ backend.admins :
            (~backend.profiles[u] /\ backend'.profiles[u]) =>
                backend'.uid \in backend.admins]_vars

\* handleApprove calls of a request that have not finished
ApprovesInFlight(id) ==
    adminPage.awaitingRequest[id] + adminPage.awaitingProfile[id]

\* handleApprove and handleReject calls of a request that have not finished
CallsInFlight(id) ==
    ApprovesInFlight(id) + adminPage.awaitingReject[id]

\* C23: when a handleApprove of a request finishes, either the request is
\* approved and the requester's profile is premium, or the request is still
\* pending and the profile is as it was
C23_ApproveAllOrNothing ==
    [][\A id \in Users :
            (/\ ApproveRequestError \/ ApproveProfileOk \/ ApproveProfileError
             /\ ApprovesInFlight(id)' < ApprovesInFlight(id)) =>
                \/ backend'.requests[id] = "approved" /\ backend'.profiles[id]
                \/ /\ backend'.requests[id] = "pending"
                   /\ backend'.profiles[id] = backend.profiles[id]]_vars

\* C24: while a handleApprove or handleReject of a request is in flight, the
\* Approve and Reject buttons of that request are not enabled
C24_ButtonsStayDisabled ==
    \A id \in Users : CallsInFlight(id) > 0 => ~ButtonsEnabled(id)

\* C25: the status of a premium request changes only from none to pending
\* (the request is created), from pending to approved and from pending to
\* rejected
C25_StatusOnlyLeavesPending ==
    [][\A id \in Users :
            backend'.requests[id] # backend.requests[id] =>
                \/ backend.requests[id] = "none" /\ backend'.requests[id] = "pending"
                \/ /\ backend.requests[id] = "pending"
                   /\ backend'.requests[id] \in {"approved", "rejected"}]_vars

----------------------------------------------------------------------------
(* Properties of process-upload *)

\* the flashcards of a flashcard set
FlashcardsOfSet(set_id) == {c \in tables.flashcards : c.set_id = set_id}

\* the run of process-upload for the upload has returned
Returned(uploadId) == processUpload[uploadId].pc \in {"done", "failed"}

\* C26: an upload is 'completed' only when a flashcard set of that upload
\* exists whose flashcards are the generated ones, at least one, with
\* order_index 0..n-1 in generation order; the status is set by the last
\* step of the run
C26_CompletedAfterSetAndFlashcards ==
    \A uploadId \in 1..MaxUploads :
        tables.processing_status[uploadId] = "completed" =>
            /\ processUpload[uploadId].pc = "done"
            /\ \E set_id \in 1..Len(tables.flashcard_sets) :
                /\ tables.flashcard_sets[set_id].upload_id = uploadId
                /\ FlashcardsOfSet(set_id) # {}
                /\ FlashcardsOfSet(set_id) =
                        {[set_id |-> set_id, card |-> i, order_index |-> i - 1] :
                            i \in 1..processUpload[uploadId].flashcardsData}

\* an upload is completed with a set of as many flashcards as the model lets
\* the AI generate
C26_Witness ==
    \E uploadId \in 1..MaxUploads :
        /\ tables.processing_status[uploadId] = "completed"
        /\ processUpload[uploadId].flashcardsData = MaxGenerated
        /\ Cardinality(FlashcardsOfSet(processUpload[uploadId].flashcardSet)) = MaxGenerated

\* C27: once a run of process-upload has returned, the flashcard set it
\* inserted has at least one flashcard
C27_NoSetWithoutFlashcards ==
    \A uploadId \in 1..MaxUploads :
        (Returned(uploadId) /\ processUpload[uploadId].flashcardSet # 0) =>
            FlashcardsOfSet(processUpload[uploadId].flashcardSet) # {}

\* C28: every upload row with processing_status 'processing' eventually has
\* another status
C28_ProcessingEventuallyLeft ==
    \A uploadId \in 1..MaxUploads :
        (tables.processing_status[uploadId] = "processing")
            ~> (tables.processing_status[uploadId] # "processing")

====
